---- MODULE Spec2Model ----
(***************************************************************************)
(* A model of qdb, the generic data-access layer over gorm: the            *)
(* connection configuration chosen by NewDb, the table provisioning of     *)
(* NewDao and the Dao[T] operations on one table of DbFull rows.           *)
(*                                                                         *)
(* The table is the set of its rows; a row is a record with the fields of  *)
(* DbFull.  Every Dao method is one action.  The statement that gorm       *)
(* issues for it is an operator (gormCreate, gormUpdates, gormSave,        *)
(* gormDelete, gormFind) that maps the table before the statement to the   *)
(* table after it, the error and the affected-row count the method reads.  *)
(* The outcome of the last call is kept in op, args, argId, err, before    *)
(* and ret, so that what a call did can be stated over a single state.     *)
(***************************************************************************)
EXTENDS Integers, Sequences, FiniteSets, TLC

VARIABLES
    cfg,        \* the connection settings NewDb read: kind, journal mode, naming option
    table,      \* the rows of T's table
    now,        \* the wall clock, in the unit of qtime.DateTime
    op,         \* the Dao method called last ("" before the first call)
    args,       \* the models passed to it, as the caller passed them
    argId,      \* the id passed to Delete or GetModel, the argument of a condition
    query,      \* the condition (and order) of a conditional read
    err,        \* the error it returned
    before,     \* the table when it was called
    ret,        \* what it handed back: the caller's model after a single write, the rows of a read
    began,      \* the clock when it was called
    catalog,    \* the tables of the database: name -> set of columns
    daoCount,   \* how many Dao[T] this process has built, per T
    ddl,        \* the schema statements the last NewDao issued, in order
    daoType,    \* the T of the last NewDao
    pgK,        \* the page size of the pagination in progress (0: none)
    pgOff,      \* the offset of its next GetList
    pgSeen,     \* the rows its pages returned so far, in order
    pgBase,     \* the table when it started
    pgDone,     \* it has received the empty page
    pgDirty,    \* the table was written since it started
    baseCfg,    \* the package's base config: FALSE while nil, TRUE once SetBaseConfig set it
    viperCfg,   \* what viper.Get yields for each key: key -> value
    configFile, \* the sections whose default settings were saved to ./config.yaml
    db,         \* how the last NewDb ended, and the settings of the connection it returned
    dbSaw       \* what that NewDb found: base config, section value, failures of its I/O

crudVars == <<table, now, op, args, argId, query, err, before, ret, began>>
schemaVars == <<catalog, daoCount, ddl, daoType>>
pageVars == <<pgK, pgOff, pgSeen, pgBase, pgDone, pgDirty>>
setupVars == <<baseCfg, viperCfg, configFile, db, dbSaw>>
vars == <<cfg, crudVars, schemaVars, pageVars, setupVars>>

----------------------------------------------------------------------------
(* Bounds of the model. *)

MaxId == 2       \* ids are 1..MaxId; 0 is the zero value of Id
MaxTime == 2     \* the clock runs from 1 to MaxTime
MaxBatch == 2    \* the longest list passed to a *List method

----------------------------------------------------------------------------
(* The data model: DbFull and qtime.DateTime. *)

\* The zero value of qtime.DateTime.
ZeroTime == 0

\* What ref.Get("LastTime") returns: the DateTime formatted as a string,
\* t seconds after the zero instant.
FormatDateTime(t) == "0001-01-01 00:00:0" \o ToString(t)

\* The string the write paths compare against.
SentinelText == "0001-01-01 00:00:00"

\* The payload columns of DbFull, as the callers of the model fill them.
Payloads ==
    { [Summary |-> "", FullInfo |-> ""], [Summary |-> "s", FullInfo |-> "f"] }

DbFull(id, lastTime, p) ==
    [Id |-> id, LastTime |-> lastTime, Summary |-> p.Summary, FullInfo |-> p.FullInfo]

\* The models a caller passes to a single-item method.
Models == { DbFull(id, t, p) : id \in 0..MaxId, t \in {ZeroTime, 1}, p \in Payloads }

\* The models a caller puts in a list.
ListModels == { DbFull(id, t, p) : id \in 0..MaxId, t \in {ZeroTime, 1},
                                   p \in {[Summary |-> "s", FullInfo |-> "f"]} }

Lists == UNION { [1..n -> ListModels] : n \in 0..MaxBatch }

\* new(T)
ZeroModel == DbFull(0, ZeroTime, [Summary |-> "", FullInfo |-> ""])

----------------------------------------------------------------------------
(* The errors a method returns. *)

ErrNil == "nil"
ErrNotExist == "update record does not exist"
ErrMissingWhereClause == "WHERE conditions required"
ErrDuplicatedKey == "UNIQUE constraint failed"
ErrExec == "execution error"

----------------------------------------------------------------------------
(* The connection: the backends of NewDb's switch and the sqlite journal   *)
(* modes its PRAGMA sets.                                                  *)

Kinds == {"sqlite", "sqlserver", "mysql", "postgres"}
JournalModes == {"", "WAL", "OFF"}

Configs ==
    { [kind |-> "sqlite", journal |-> j, noLowerCase |-> n] :
          j \in JournalModes, n \in BOOLEAN }
    \cup { [kind |-> k, journal |-> "", noLowerCase |-> n] :
          k \in Kinds \ {"sqlite"}, n \in BOOLEAN }

\* The default settings NewDb writes when the section is absent.
DefaultConfig == [kind |-> "sqlite", journal |-> "OFF", noLowerCase |-> TRUE]

----------------------------------------------------------------------------
(* NewDb: from the configured section to an open connection.               *)
(*                                                                         *)
(* A connect string is the sequence of its tokens: the separators "|" and  *)
(* "&" and the texts between them, none of which holds a separator.        *)

\* The section NewDb is called with, and the module name of the base config.
Section == "db"
ModuleName == "module"

\* fmt.Sprintf("%s.%s", moduleName, section)
Qualified(section) == ModuleName \o "." \o section

\* The keys NewDb asks viper for.
Keys == {Qualified(Section), Section}

\* strings.Split(s, sep): the pieces between the separators; a string
\* without the separator is its own single piece.
RECURSIVE Split(_, _)
Split(s, sep) ==
    IF \A i \in 1..Len(s) : s[i] # sep
    THEN <<s>>
    ELSE LET i == CHOOSE k \in 1..Len(s) : s[k] = sep /\ \A j \in 1..(k - 1) : s[j] # sep
         IN  <<SubSeq(s, 1, i - 1)>> \o Split(SubSeq(s, i + 1, Len(s)), sep)

\* The string a piece of a split is.
RECURSIVE Text(_)
Text(piece) == IF piece = <<>> THEN "" ELSE piece[1] \o Text(Tail(piece))

\* The connect strings a section can hold: the documented forms, and forms
\* without a separator, with an unknown leading token, and the empty string.
ConnectStrings ==
    { <<k, "|", "dsn">> : k \in Kinds \ {"sqlite"} }
    \cup { <<"sqlite", "|", "./db/data.db", "&", j>> : j \in JournalModes \ {""} }
    \cup { <<"sqlite", "|", "./db/data.db", "&">>,
           <<"sqlite", "|", "./db/data.db">>,
           <<"sqlite">>,
           <<"mysql">>,
           <<"oracle", "|", "dsn">>,
           <<>> }

\* A value viper.Get can yield: nil, a map that decodes into setting, a value
\* of another shape that json.Unmarshal refuses (a scalar, a connect that is
\* not a string), or a value json.Marshal cannot encode.
Value(type, connect, noLowerCase) ==
    [type |-> type, connect |-> connect, noLowerCase |-> noLowerCase]
Absent == Value("nil", <<>>, FALSE)
Values ==
    {Absent, Value("mistyped", <<>>, FALSE), Value("unencodable", <<>>, FALSE)}
    \cup { Value("setting", c, n) : c \in ConnectStrings, n \in BOOLEAN }

\* setting{}: the zero value.
ZeroSetting == [connect |-> <<>>, noLowerCase |-> FALSE]

\* The defaults NewDb takes when neither key is configured.
DefaultSetting ==
    [connect |-> <<"sqlite", "|", "./db/data.db", "&", "OFF">>, noLowerCase |-> TRUE]

\* json.Marshal(cfg), then json.Unmarshal(js, &setting) if that gave no
\* error: a Marshal error leaves setting at its zero value and is not
\* reported; an Unmarshal error is.
Decode(v) ==
    IF v.type = "unencodable" THEN [failed |-> FALSE, setting |-> ZeroSetting]
    ELSE IF v.type = "mistyped" THEN [failed |-> TRUE, setting |-> ZeroSetting]
    ELSE [failed |-> FALSE, setting |-> [connect |-> v.connect, noLowerCase |-> v.noLowerCase]]

\* How a call of NewDb ends: it has not been called, it panicked, it
\* returned nil, or it returned a connection with these settings.
NoConf == [kind |-> "", journal |-> "", noLowerCase |-> FALSE]
NotCalled == [out |-> "none", conf |-> NoConf]
Panic == [out |-> "panic", conf |-> NoConf]
ReturnNil == [out |-> "nil", conf |-> NoConf]
Opened(c) == [out |-> "db", conf |-> c]

\* The switch on sp[0]: sp[1] and spp[1] are indexed without a check of the
\* length, which panics when the separator is missing; a kind outside the
\* switch leaves db nil, which panics.
Open(setting, mkdirErr, openErr) ==
    LET sp == Split(setting.connect, "|")
        kind == Text(sp[1])
    IN  IF kind = "sqlite"
        THEN IF Len(sp) < 2 THEN Panic
             ELSE LET spp == Split(sp[2], "&")
                  IN  IF mkdirErr THEN Panic
                      ELSE IF openErr THEN Panic
                      ELSE IF Len(spp) < 2 THEN Panic
                      ELSE Opened([kind |-> kind, journal |-> Text(spp[2]),
                                   noLowerCase |-> setting.noLowerCase])
        ELSE IF kind \in {"sqlserver", "mysql", "postgres"}
        THEN IF Len(sp) < 2 THEN Panic
             ELSE IF openErr THEN Panic
             ELSE Opened([kind |-> kind, journal |-> "",
                          noLowerCase |-> setting.noLowerCase])
        ELSE Panic

\* What a call of NewDb found.
Saw(base, v, mkdirErr, openErr) ==
    [baseCfg |-> base, value |-> v, mkdirErr |-> mkdirErr, openErr |-> openErr]

\* viper.Get of the qualified key, then of the plain one.
Lookup(section) ==
    IF viperCfg[Qualified(section)] # Absent
    THEN viperCfg[Qualified(section)]
    ELSE viperCfg[section]

\* A panic ends the process.
Running == db.out # "panic"

\* SetBaseConfig(cfg), called by the main program.
SetBaseConfig ==
    /\ Running
    /\ ~baseCfg
    /\ baseCfg' = TRUE
    /\ UNCHANGED <<viperCfg, configFile, db, dbSaw>>
    /\ UNCHANGED <<cfg, crudVars, schemaVars, pageVars>>

\* NewDb(section).
NewDb(section, mkdirErr, openErr) ==
    /\ Running
    /\ dbSaw' = Saw(baseCfg, Lookup(section), mkdirErr, openErr)
    /\ IF ~baseCfg
       THEN /\ db' = Panic
            /\ configFile' = configFile
       ELSE LET v == Lookup(section)
            IN  IF v = Absent
                THEN /\ configFile' = configFile \cup {section}
                     /\ db' = Open(DefaultSetting, mkdirErr, openErr)
                ELSE /\ configFile' = configFile
                     /\ db' = IF Decode(v).failed
                              THEN ReturnNil
                              ELSE Open(Decode(v).setting, mkdirErr, openErr)
    /\ UNCHANGED <<baseCfg, viperCfg>>
    /\ UNCHANGED <<cfg, crudVars, schemaVars, pageVars>>

\* The connect string that yields the settings c.
ConnectOf(c) ==
    IF c.kind = "sqlite"
    THEN <<"sqlite", "|", "./db/data.db", "&">>
         \o (IF c.journal = "" THEN <<>> ELSE <<c.journal>>)
    ELSE <<c.kind, "|", "dsn">>

\* The start of the process has run: the base config is set, the section
\* holds the settings of cfg and NewDb returned the connection.
SetupDone ==
    LET v == Value("setting", ConnectOf(cfg), cfg.noLowerCase)
    IN  /\ baseCfg = TRUE
        /\ viperCfg = [k \in Keys |-> IF k = Section THEN v ELSE Absent]
        /\ configFile = {}
        /\ db = Opened(cfg)
        /\ dbSaw = Saw(TRUE, v, FALSE, FALSE)

----------------------------------------------------------------------------
(* Timestamp stamping. *)

\* A stamping that does not look at the field first.
StampAlways(model, t) == [model EXCEPT !.LastTime = t]

\* Through the caller's pointer: the model itself is stamped.
Stamp(model, t) ==
    IF FormatDateTime(model.LastTime) = SentinelText
    THEN [model EXCEPT !.LastTime = t]
    ELSE model

\* In a *List loop: `for _, model := range list` copies the element, and
\* qreflect.New(model) is handed that value, not its address.  Set writes
\* into the reflect wrapper's own copy (its error is discarded); the loop
\* variable, whose address the statement receives, is as it was.
StampLoopCopy(model, t) ==
    LET ref == Stamp(model, t)
    IN  model

----------------------------------------------------------------------------
(* The statements gorm issues.  Each returns                               *)
(*   t: the table after it, e: result.Error, n: result.RowsAffected,       *)
(*   m: the model behind the pointer it was given.                         *)

Max(S) == CHOOSE x \in S : \A y \in S : y <= x

WithId(tbl, id) == { r \in tbl : r.Id = id }

Result(tbl, e, n, m) == [t |-> tbl, e |-> e, n |-> n, m |-> m]

\* INSERT.  A zero Id is assigned by the engine (one past the largest id;
\* the id space is 1..MaxId, and an insert beyond it fails); a taken Id
\* violates the primary key unless the statement carries ON CONFLICT ...
\* UPDATE ALL.
gormCreate(tbl, m, onConflictUpdateAll) ==
    IF m.Id = 0
    THEN LET id == Max({ r.Id : r \in tbl } \cup {0}) + 1
         IN  IF id > MaxId
             THEN Result(tbl, ErrExec, 0, m)
             ELSE Result(tbl \cup {[m EXCEPT !.Id = id]}, ErrNil, 1, [m EXCEPT !.Id = id])
    ELSE IF WithId(tbl, m.Id) # {}
         THEN IF onConflictUpdateAll
              THEN Result((tbl \ WithId(tbl, m.Id)) \cup {m}, ErrNil, 1, m)
              ELSE Result(tbl, ErrDuplicatedKey, 0, m)
         ELSE Result(tbl \cup {m}, ErrNil, 1, m)

\* The columns an UPDATE from a struct assigns: every column when all are
\* selected, otherwise the columns whose field is not the zero value.
Assign(r, m, selectAll) ==
    [ Id       |-> r.Id,
      LastTime |-> IF selectAll \/ m.LastTime # ZeroTime THEN m.LastTime ELSE r.LastTime,
      Summary  |-> IF selectAll \/ m.Summary # "" THEN m.Summary ELSE r.Summary,
      FullInfo |-> IF selectAll \/ m.FullInfo # "" THEN m.FullInfo ELSE r.FullInfo ]

NoAssignments(m, selectAll) ==
    ~selectAll /\ m.LastTime = ZeroTime /\ m.Summary = "" /\ m.FullInfo = ""

\* What the driver reports as affected by an UPDATE: mysql counts the rows
\* the statement changed, the other backends the rows it matched.
RowsAffected(kind, matched, changed) ==
    IF kind = "mysql" THEN Cardinality(changed) ELSE Cardinality(matched)

\* UPDATE ... WHERE id = m.Id, from the struct m.  Nothing is issued when
\* no column is assigned; a zero Id leaves the statement without a WHERE
\* clause, which gorm refuses.
gormUpdates(kind, tbl, m, selectAll) ==
    IF NoAssignments(m, selectAll)
    THEN Result(tbl, ErrNil, 0, m)
    ELSE IF m.Id = 0
    THEN Result(tbl, ErrMissingWhereClause, 0, m)
    ELSE LET matched == WithId(tbl, m.Id)
             changed == { r \in matched : Assign(r, m, selectAll) # r }
         IN  Result((tbl \ matched) \cup { Assign(r, m, selectAll) : r \in matched },
                    ErrNil, RowsAffected(kind, matched, changed), m)

\* A Save that only updates.
gormSaveUpdateOnly(kind, tbl, m) == gormUpdates(kind, tbl, m, TRUE)

\* db.Save: an insert when the primary key is zero; otherwise an update of
\* all columns and, when that affected no row, an insert that updates on
\* conflict.
gormSave(kind, tbl, m) ==
    IF m.Id = 0
    THEN gormCreate(tbl, m, FALSE)
    ELSE LET u == gormUpdates(kind, tbl, m, TRUE)
         IN  IF u.e = ErrNil /\ u.n = 0
             THEN gormCreate(tbl, m, TRUE)
             ELSE u

\* A DELETE that lost its WHERE clause.
gormDeleteAll(tbl, id) == Result({}, ErrNil, Cardinality(tbl), ZeroModel)

\* DELETE ... WHERE id = ?
gormDelete(tbl, id) ==
    Result(tbl \ WithId(tbl, id), ErrNil, Cardinality(WithId(tbl, id)), ZeroModel)


\* The rows of a table in the order a scan without ORDER BY meets them:
\* the order of the primary key, in which the table is stored.  It is the
\* same for every scan as long as the table is not written.
RECURSIVE Scan(_)
Scan(tbl) ==
    IF tbl = {} THEN <<>>
    ELSE LET first == CHOOSE r \in tbl : \A y \in tbl : r.Id <= y.Id
         IN  <<first>> \o Scan(tbl \ {first})

Reverse(s) == [i \in 1..Len(s) |-> s[Len(s) + 1 - i]]

\* The conditions callers pass to Where, with their one argument.
Conditions == {"id = ?", "id > ?", "last_time = ?"}
Orders == {"id asc", "id desc"}

Matches(r, cond, arg) ==
    CASE cond = "id = ?" -> r.Id = arg
      [] cond = "id > ?" -> r.Id > arg
      [] cond = "last_time = ?" -> r.LastTime = arg

Where(tbl, cond, arg) == { r \in tbl : Matches(r, cond, arg) }

\* SELECT ... WHERE cond [ORDER BY order]: the matching rows in order.
Select(tbl, cond, arg, order) ==
    IF order = "id desc" THEN Reverse(Scan(Where(tbl, cond, arg)))
    ELSE Scan(Where(tbl, cond, arg))

\* Find into one model: the first row of the result is scanned into it and
\* counted; with no row the model stays new(T) and the count is 0.
gormFind(tbl, cond, arg, order) ==
    LET rows == Select(tbl, cond, arg, order)
    IN  IF rows = <<>>
        THEN Result(tbl, ErrNil, 0, ZeroModel)
        ELSE Result(tbl, ErrNil, 1, rows[1])

\* A statement that the engine fails to execute (lost connection, ...):
\* the error is set, no row is affected, nothing is written.
Failed(tbl, m) == Result(tbl, ErrExec, 0, m)

----------------------------------------------------------------------------
(* What each method makes of the statement's result. *)

\* Create, Save, Delete: return result.Error
ResultError(r) == r.e

\* Update: nil when a row was affected, else the error, else not-found.
UpdateError(r) ==
    IF r.n > 0 THEN ErrNil
    ELSE IF r.e # ErrNil THEN r.e
    ELSE ErrNotExist

\* A read that does not look at RowsAffected.
ReadOneIgnoringCount(r) ==
    IF r.e # ErrNil
    THEN [ret |-> <<>>, err |-> r.e]
    ELSE [ret |-> <<r.m>>, err |-> ErrNil]

\* GetModel, GetCondition, GetConditionOrder: (nil, result.Error) on an
\* error or when no row was found, else (model, nil).  ret is <<>> for nil.
ReadOne(r) ==
    IF r.e # ErrNil \/ r.n = 0
    THEN [ret |-> <<>>, err |-> r.e]
    ELSE [ret |-> <<r.m>>, err |-> ErrNil]

----------------------------------------------------------------------------
(* The single-item methods of Dao[T]. *)

\* The record of a call.
Called(name, models, id, q, e, rt, t0) ==
    /\ op' = name
    /\ args' = models
    /\ argId' = id
    /\ query' = q
    /\ err' = e
    /\ ret' = rt
    /\ before' = table
    /\ began' = t0

NoQuery == [cond |-> "", order |-> ""]

\* Create(model): the clock is read at t, between the call (now) and the
\* return (end).
Create(model, t, end, fail) ==
    LET stamped == Stamp(model, t)
        r == IF fail THEN Failed(table, stamped) ELSE gormCreate(table, stamped, FALSE)
    IN  /\ table' = r.t
        /\ now' = end
        /\ Called("Create", <<model>>, 0, NoQuery, ResultError(r), <<r.m>>, now)

\* Update(model)
Update(model, fail) ==
    LET stamped == Stamp(model, now)
        r == IF fail THEN Failed(table, stamped)
             ELSE gormUpdates(cfg.kind, table, stamped, FALSE)
    IN  /\ table' = r.t
        /\ now' = now
        /\ Called("Update", <<model>>, 0, NoQuery, UpdateError(r), <<r.m>>, now)

\* Save(model)
Save(model, fail) ==
    LET stamped == Stamp(model, now)
        r == IF fail THEN Failed(table, stamped) ELSE gormSave(cfg.kind, table, stamped)
    IN  /\ table' = r.t
        /\ now' = now
        /\ Called("Save", <<model>>, 0, NoQuery, ResultError(r), <<r.m>>, now)

\* Delete(id)
Delete(id, fail) ==
    LET r == IF fail THEN Failed(table, ZeroModel) ELSE gormDelete(table, id)
    IN  /\ table' = r.t
        /\ now' = now
        /\ Called("Delete", <<>>, id, NoQuery, ResultError(r), <<>>, now)

\* GetModel(id)
GetModel(id, fail) ==
    LET r == IF fail THEN Failed(table, ZeroModel) ELSE gormFind(table, "id = ?", id, "")
        out == ReadOne(r)
    IN  /\ table' = r.t
        /\ now' = now
        /\ Called("GetModel", <<>>, id, [cond |-> "id = ?", order |-> ""],
                  out.err, out.ret, now)

\* GetCondition(query, arg)
GetCondition(cond, arg, fail) ==
    LET r == IF fail THEN Failed(table, ZeroModel) ELSE gormFind(table, cond, arg, "")
        out == ReadOne(r)
    IN  /\ table' = r.t
        /\ now' = now
        /\ Called("GetCondition", <<>>, arg, [cond |-> cond, order |-> ""],
                  out.err, out.ret, now)

\* GetConditionOrder(order, query, arg)
GetConditionOrder(order, cond, arg, fail) ==
    LET r == IF fail THEN Failed(table, ZeroModel) ELSE gormFind(table, cond, arg, order)
        out == ReadOne(r)
    IN  /\ table' = r.t
        /\ now' = now
        /\ Called("GetConditionOrder", <<>>, arg, [cond |-> cond, order |-> order],
                  out.err, out.ret, now)

\* The clock advances between calls.
Tick ==
    /\ op = ""
    /\ now < MaxTime
    /\ now' = now + 1
    /\ UNCHANGED <<table, op, args, argId, query, err, before, ret, began>>
    /\ UNCHANGED <<cfg, setupVars, schemaVars, pageVars>>

----------------------------------------------------------------------------
(* The *List methods: one transaction around a loop over the list. *)

\* A loop whose UpdateList reads RowsAffected the way Update does.
ListStatementNotFound(name, kind, tbl, model) ==
    LET r == CASE name = "CreateList" -> gormCreate(tbl, model, FALSE)
               [] name = "UpdateList" -> gormUpdates(kind, tbl, model, FALSE)
               [] name = "SaveList" -> gormSave(kind, tbl, model)
    IN  IF name = "UpdateList" THEN Result(r.t, UpdateError(r), r.n, r.m) ELSE r

\* The statement a loop issues for its copy of the element.
ListStatement(name, kind, tbl, model) ==
    CASE name = "CreateList" -> gormCreate(tbl, model, FALSE)
      [] name = "UpdateList" -> gormUpdates(kind, tbl, model, FALSE)
      [] name = "SaveList" -> gormSave(kind, tbl, model)

\* The function passed to Transaction: the loop from element i on, over the
\* transaction's view tbl of the table; it returns at the first error.
\* failAt is the element whose statement the engine fails to execute (0:
\* none).
RECURSIVE RunList(_, _, _, _, _, _, _)
RunList(name, kind, tbl, list, i, t, failAt) ==
    IF i > Len(list)
    THEN Result(tbl, ErrNil, 0, ZeroModel)
    ELSE LET model == StampLoopCopy(list[i], t)
             r == IF i = failAt THEN Failed(tbl, model)
                  ELSE ListStatement(name, kind, tbl, model)
         IN  IF r.e # ErrNil
             THEN r
             ELSE RunList(name, kind, r.t, list, i + 1, t, failAt)

\* ROLLBACK restores the table of BEGIN.  With sqlite's journal mode OFF
\* there is no rollback journal: what ROLLBACK leaves is undefined, the
\* table of BEGIN or the writes made so far.
Rollback(c, begin, current) ==
    IF c.kind = "sqlite" /\ c.journal = "OFF"
    THEN {begin, current}
    ELSE {begin}

\* db.Transaction(fc): COMMIT when fc returned nil, ROLLBACK otherwise.
\* The set of tables it can leave.
Transaction(c, begin, r) ==
    IF r.e = ErrNil THEN {r.t} ELSE Rollback(c, begin, r.t)

ListCall(name, list, failAt) ==
    LET r == RunList(name, cfg.kind, table, list, 1, now, failAt)
    IN  /\ table' \in Transaction(cfg, table, r)
        /\ now' = now
        /\ Called(name, list, 0, NoQuery, ResultError(r), <<>>, now)

\* CreateList(list)
CreateList(list, failAt) == ListCall("CreateList", list, failAt)

\* UpdateList(list)
UpdateList(list, failAt) == ListCall("UpdateList", list, failAt)

\* SaveList(list)
SaveList(list, failAt) == ListCall("SaveList", list, failAt)

----------------------------------------------------------------------------
(* The specification of the Dao methods on an open connection whose table  *)
(* NewDao has provisioned.                                                 *)

\* The settings of the connection; the naming option has no part in the
\* row operations and is held at its default.
CrudConfigs == { c \in Configs : c.noLowerCase = DefaultConfig.noLowerCase }

NoSchema == /\ catalog = <<>>
            /\ daoCount = <<>>
            /\ ddl = <<>>
            /\ daoType = <<>>

NoPage == /\ pgK = 0
          /\ pgOff = 0
          /\ pgSeen = <<>>
          /\ pgBase = {}
          /\ pgDone = FALSE
          /\ pgDirty = FALSE

NoCall == /\ op = ""
          /\ args = <<>>
          /\ argId = 0
          /\ query = NoQuery
          /\ err = ErrNil
          /\ before = {}
          /\ ret = <<>>
          /\ began = 1

Init ==
    /\ cfg \in CrudConfigs
    /\ table = {}
    /\ now = 1
    /\ NoCall
    /\ NoSchema
    /\ NoPage
    /\ SetupDone

\* A caller makes a call when it holds no result of an earlier one.
Idle == op = ""

\* A Dao method leaves the settings, the schema and a pagination alone.
CrudOnly == UNCHANGED <<cfg, setupVars, schemaVars, pageVars>>

DoCreate ==
    /\ Idle /\ CrudOnly
    /\ \E model \in Models, t \in now..MaxTime, fail \in BOOLEAN :
          \E end \in t..MaxTime : Create(model, t, end, fail)
DoUpdate == Idle /\ CrudOnly /\ \E model \in Models, fail \in BOOLEAN : Update(model, fail)
DoSave == Idle /\ CrudOnly /\ \E model \in Models, fail \in BOOLEAN : Save(model, fail)
DoDelete == Idle /\ CrudOnly /\ \E id \in 0..MaxId, fail \in BOOLEAN : Delete(id, fail)
DoGetModel == Idle /\ CrudOnly /\ \E id \in 0..MaxId, fail \in BOOLEAN : GetModel(id, fail)
DoGetCondition ==
    /\ Idle /\ CrudOnly
    /\ \E cond \in Conditions, arg \in 0..MaxId, fail \in BOOLEAN :
          GetCondition(cond, arg, fail)
DoGetConditionOrder ==
    /\ Idle /\ CrudOnly
    /\ \E order \in Orders, cond \in Conditions, arg \in 0..MaxId, fail \in BOOLEAN :
          GetConditionOrder(order, cond, arg, fail)
DoCreateList == Idle /\ CrudOnly /\ \E list \in Lists : \E failAt \in 0..Len(list) : CreateList(list, failAt)
DoUpdateList == Idle /\ CrudOnly /\ \E list \in Lists : \E failAt \in 0..Len(list) : UpdateList(list, failAt)
DoSaveList == Idle /\ CrudOnly /\ \E list \in Lists : \E failAt \in 0..Len(list) : SaveList(list, failAt)

\* The caller has looked at what the call returned and lets go of it.
Return ==
    /\ op # ""
    /\ op' = ""
    /\ args' = <<>>
    /\ argId' = 0
    /\ query' = NoQuery
    /\ err' = ErrNil
    /\ before' = {}
    /\ ret' = <<>>
    /\ began' = 1
    /\ UNCHANGED <<table, now>>
    /\ UNCHANGED <<cfg, setupVars, schemaVars, pageVars>>

\* The single-item methods.
Next ==
    \/ DoCreate
    \/ DoUpdate
    \/ DoSave
    \/ DoDelete
    \/ DoGetModel
    \/ DoGetCondition
    \/ DoGetConditionOrder
    \/ Tick
    \/ Return

Spec == Init /\ [][Next]_vars

\* The *List methods.
NextList ==
    \/ DoCreateList
    \/ DoUpdateList
    \/ DoSaveList
    \/ Tick
    \/ Return

SpecList == Init /\ [][NextList]_vars

----------------------------------------------------------------------------
(* GetList and a caller that pages through the table with it. *)

Min(a, b) == IF a < b THEN a ELSE b

\* A GetList that takes startId for an id: the rows after that id.
GetListFromId(tbl, startId, maxCount) ==
    LET rows == Scan({ r \in tbl : r.Id > startId })
    IN  SubSeq(rows, 1, Min(maxCount, Len(rows)))

\* GetList(startId, maxCount): Limit(maxCount).Offset(startId).Find(&list),
\* the rows of the scan from position startId on, at most maxCount of them.
GetList(tbl, startId, maxCount) ==
    LET rows == Scan(tbl)
    IN  SubSeq(rows, startId + 1, Min(startId + maxCount, Len(rows)))

\* The rows the table is filled with around a pagination.
PageModels == { m \in Models : m.LastTime # ZeroTime /\ m.Summary # "" }

\* The page sizes the caller uses.
PageSizes == 1..(MaxId + 1)

\* The caller starts a pagination with page size k.
PageBegin(k) ==
    /\ Idle
    /\ pgK = 0
    /\ pgK' = k
    /\ pgOff' = 0
    /\ pgSeen' = <<>>
    /\ pgBase' = table
    /\ pgDone' = FALSE
    /\ pgDirty' = FALSE
    /\ UNCHANGED <<cfg, setupVars, crudVars, schemaVars>>

\* It calls GetList(pgOff, pgK), keeps the page and moves on by pgK; the
\* empty page ends the iteration.  A failed call returns the empty list
\* with the error, and the caller gives up.
PageNext(fail) ==
    /\ pgK > 0
    /\ ~pgDone
    /\ LET list == IF fail THEN <<>> ELSE GetList(table, pgOff, pgK)
       IN  /\ Called("GetList", <<>>, pgOff, NoQuery,
                     IF fail THEN ErrExec ELSE ErrNil, list, now)
           /\ IF fail
              THEN /\ pgK' = 0 /\ pgOff' = 0 /\ pgSeen' = <<>> /\ pgBase' = {}
                   /\ pgDone' = FALSE /\ pgDirty' = FALSE
              ELSE /\ pgSeen' = pgSeen \o list
                   /\ pgOff' = pgOff + pgK
                   /\ pgDone' = (list = <<>>)
                   /\ UNCHANGED <<pgK, pgBase, pgDirty>>
    /\ UNCHANGED <<cfg, setupVars, table, now, schemaVars>>

\* Another caller writes the table between two pages.
PageWrite ==
    /\ pgK > 0
    /\ ~pgDone
    /\ \/ \E id \in 1..MaxId : Delete(id, FALSE)
       \/ \E model \in PageModels : Create(model, now, now, FALSE)
    /\ pgDirty' = TRUE
    /\ UNCHANGED <<cfg, setupVars, schemaVars, pgK, pgOff, pgSeen, pgBase, pgDone>>

\* The caller is done with the pages.
PageEnd ==
    /\ pgDone
    /\ pgK' = 0 /\ pgOff' = 0 /\ pgSeen' = <<>> /\ pgBase' = {}
    /\ pgDone' = FALSE /\ pgDirty' = FALSE
    /\ UNCHANGED <<table, now>>
    /\ op' = "" /\ args' = <<>> /\ argId' = 0 /\ query' = NoQuery /\ err' = ErrNil
    /\ before' = {} /\ ret' = <<>> /\ began' = 1
    /\ UNCHANGED <<cfg, setupVars, schemaVars>>

InitPage ==
    /\ cfg = DefaultConfig
    /\ table = {}
    /\ now = 1
    /\ NoCall
    /\ NoSchema
    /\ NoPage
    /\ SetupDone

\* The table is filled outside a pagination.
PageFill ==
    /\ pgK = 0
    /\ Idle
    /\ CrudOnly
    /\ \E model \in PageModels : Create(model, now, now, FALSE)

PageReturn == pgK = 0 /\ Return

NextPage ==
    \/ PageFill
    \/ PageReturn
    \/ \E k \in PageSizes : PageBegin(k)
    \/ \E fail \in BOOLEAN : PageNext(fail)
    \/ PageWrite
    \/ PageEnd

SpecPage == InitPage /\ [][NextPage]_vars

----------------------------------------------------------------------------
(* NewDao: the provisioning of T's table. *)

\* The entity types, by the name reflect gives them, letter by letter.
TypeNames ==
    { <<"D", "b", "F", "u", "l", "l">>, <<"D", "b", "S", "i", "m", "p", "l", "e">> }

IsUpper(ch) == ch \in {"D", "F", "S"}

ToLower(ch) ==
    CASE ch = "D" -> "d"
      [] ch = "F" -> "f"
      [] ch = "S" -> "s"
      [] OTHER -> ch

\* schema.NamingStrategy.toDBName: the name as it is when NoLowerCase is
\* set, else in snake case.
RECURSIVE SnakeCase(_, _)
SnakeCase(name, i) ==
    IF i > Len(name) THEN <<>>
    ELSE (IF IsUpper(name[i])
          THEN (IF i > 1 THEN <<"_">> ELSE <<>>) \o <<ToLower(name[i])>>
          ELSE <<name[i]>>)
         \o SnakeCase(name, i + 1)

\* NamingStrategy{SingularTable: true, NoLowerCase: n}.TableName(name)
TableName(noLowerCase, name) ==
    IF noLowerCase THEN name ELSE SnakeCase(name, 1)

\* The columns of T's fields.
Columns(name) ==
    IF name = <<"D", "b", "F", "u", "l", "l">>
    THEN {"Id", "LastTime", "Summary", "FullInfo"}
    ELSE {"Id", "LastTime"}

\* The columns of a table that an earlier version of T left behind.
EarlierColumns(name) ==
    IF name = <<"D", "b", "F", "u", "l", "l">>
    THEN { {"Id", "LastTime", "FullInfo"} }
    ELSE {}

\* Migrator().HasTable(x): whether the database has a table of that name.
\* A string is taken as the table's name as it is.
HasTable(cat, tableName) == tableName \in DOMAIN cat

Statement(stmt, tableName) == [stmt |-> stmt, name |-> tableName]

\* db.AutoMigrate(m): with the table of the naming strategy's name absent,
\* CREATE TABLE; with it present, ALTER TABLE for what the table lacks of
\* T's columns.  It returns the catalog after it, the error, the statements.
AutoMigrate(c, cat, name, fail) ==
    LET tn == TableName(c.noLowerCase, name)
        probe == <<Statement("HasTable", tn)>>
    IN  IF fail
        THEN [cat |-> cat, e |-> ErrExec, ddl |-> probe]
        ELSE IF ~HasTable(cat, tn)
        THEN [cat |-> [x \in DOMAIN cat \cup {tn} |->
                          IF x = tn THEN Columns(name) ELSE cat[x]],
              e |-> ErrNil,
              ddl |-> probe \o <<Statement("CreateTable", tn)>>]
        ELSE IF Columns(name) \subseteq cat[tn]
        THEN [cat |-> cat, e |-> ErrNil, ddl |-> probe]
        ELSE [cat |-> [cat EXCEPT ![tn] = @ \cup Columns(name)],
              e |-> ErrNil,
              ddl |-> probe \o <<Statement("AlterTable", tn)>>]

\* How often the model lets a process build a Dao of one type.
MaxDaos == 2

\* NewDao[T](db): the probe is by reflect's name of T; a failed AutoMigrate
\* yields no Dao.
NewDao(name, fail) ==
    /\ daoCount[name] < MaxDaos
    /\ daoType' = name
    /\ IF ~HasTable(catalog, name)
       THEN LET r == AutoMigrate(cfg, catalog, name, fail)
            IN  /\ catalog' = r.cat
                /\ ddl' = <<Statement("HasTable", name)>> \o r.ddl
                /\ daoCount' = IF r.e # ErrNil THEN daoCount
                               ELSE [daoCount EXCEPT ![name] = @ + 1]
       ELSE /\ catalog' = catalog
            /\ ddl' = <<Statement("HasTable", name)>>
            /\ daoCount' = [daoCount EXCEPT ![name] = @ + 1]
    /\ UNCHANGED <<cfg, setupVars, crudVars, pageVars>>

\* The tables the database can hold when the process starts: for each type
\* none, or the table of the connection's naming, with T's columns or an
\* earlier version's.
Catalogs(noLowerCase) ==
    LET typeOf(tn) == CHOOSE t \in TypeNames : TableName(noLowerCase, t) = tn
    IN  UNION { { cat \in [present -> SUBSET {"Id", "LastTime", "Summary", "FullInfo"}] :
                    \A tn \in present :
                        cat[tn] \in {Columns(typeOf(tn))} \cup EarlierColumns(typeOf(tn)) } :
                present \in SUBSET { TableName(noLowerCase, t) : t \in TypeNames } }

InitSchema ==
    /\ cfg \in Configs
    /\ catalog \in Catalogs(cfg.noLowerCase)
    /\ daoCount = [t \in TypeNames |-> 0]
    /\ ddl = <<>>
    /\ daoType = <<>>
    /\ table = {}
    /\ now = 1
    /\ NoCall
    /\ NoPage
    /\ SetupDone

NextSchema == \E name \in TypeNames, fail \in BOOLEAN : NewDao(name, fail)

SpecSchema == InitSchema /\ [][NextSchema]_vars

----------------------------------------------------------------------------
(* The specification of the start of a process: the configuration is what  *)
(* the host loaded, the base config is not set yet and NewDb has not run.  *)

InitSetup ==
    /\ baseCfg = FALSE
    /\ viperCfg \in [Keys -> Values]
    /\ configFile = {}
    /\ db = NotCalled
    /\ dbSaw = Saw(FALSE, Absent, FALSE, FALSE)
    /\ cfg = DefaultConfig
    /\ table = {}
    /\ now = 1
    /\ NoCall
    /\ NoSchema
    /\ NoPage

DoNewDb == \E mkdirErr \in BOOLEAN, openErr \in BOOLEAN : NewDb(Section, mkdirErr, openErr)

NextSetup ==
    \/ SetBaseConfig
    \/ DoNewDb

SpecSetup == InitSetup /\ [][NextSetup]_vars

----------------------------------------------------------------------------
(* The claims about the *List methods, under SpecList. *)

ListMethods == {"CreateList", "UpdateList", "SaveList"}

\* C1: batch writes are all-or-nothing.  Whenever CreateList, UpdateList or
\* SaveList returns an error, the table is the table before the call.
C1_BatchAllOrNothing ==
    (op \in ListMethods /\ err # ErrNil) => table = before

\* C2: no row written through this layer has LastTime at the zero
\* sentinel.
C2_NoSentinelPersisted ==
    \A r \in table : FormatDateTime(r.LastTime) # SentinelText

----------------------------------------------------------------------------
(* The claims about the single-item methods, under Spec. *)

\* C3: Update(e) where e.Id matches no row returns the not-found error and
\* leaves the table unchanged; the not-found error is returned only when no
\* row with e.Id exists.  (The call is one the engine executed.)
C3_UpdateNotFound ==
    (op = "Update" /\ err # ErrExec) =>
        LET e == args[1]
        IN  /\ WithId(before, e.Id) = {} => (err = ErrNotExist /\ table = before)
            /\ err = ErrNotExist => WithId(before, e.Id) = {}

\* C4: a successful Update(m) writes all of m's fields: afterwards the row
\* with m.Id equals m (as the call left it) in every field, zero-valued
\* fields included, and no other row is changed.
C4_UpdateWritesAllFields ==
    (op = "Update" /\ err = ErrNil) =>
        LET m == ret[1]
        IN  /\ WithId(table, m.Id) = {m}
            /\ table \ WithId(table, m.Id) = before \ WithId(before, m.Id)

UniqueIds == \A r1 \in table, r2 \in table : r1.Id = r2.Id => r1 = r2

\* C5: Save(m) is an upsert keyed by Id.  A row with m.Id is replaced by m
\* and the row count is unchanged; otherwise exactly one row equal to m is
\* inserted; no other row changes; there is at most one row per Id.  Here m
\* is the caller's model as Save left it: stamped, and with the Id the
\* engine assigned when it was zero.
C5_SaveUpserts ==
    /\ UniqueIds
    /\ op = "Save" =>
        LET e == args[1]
            m == ret[1]
        IN  /\ err \in {ErrNil, ErrExec}
            /\ err = ErrNil =>
                /\ m.Summary = e.Summary /\ m.FullInfo = e.FullInfo
                /\ e.Id # 0 => m.Id = e.Id
                /\ IF WithId(before, e.Id) # {}
                   THEN /\ table = (before \ WithId(before, e.Id)) \cup {m}
                        /\ Cardinality(table) = Cardinality(before)
                   ELSE /\ WithId(before, m.Id) = {}
                        /\ table = before \cup {m}
                        /\ Cardinality(table) = Cardinality(before) + 1

C5_Witness ==
    /\ op = "Save" /\ err = ErrNil
    /\ WithId(before, args[1].Id) # {}
    /\ WithId(before, args[1].Id) # WithId(table, args[1].Id)
    /\ Cardinality(before) = 2

\* C6: round trip.  After a successful Create(e), GetModel(e.Id) returns a
\* record equal to e in every field but LastTime; when e.LastTime was unset
\* the stored LastTime lies between the clock at the call and the clock at
\* the return, and otherwise it is e.LastTime.  A Create of an entity whose
\* Id is not present succeeds unless the engine fails.
C6_CreateRoundTrip ==
    op = "Create" =>
        LET e == args[1]
            got == ReadOne(gormFind(table, "id = ?", ret[1].Id, ""))
        IN  /\ (e.Id # 0 /\ WithId(before, e.Id) = {} /\ err # ErrExec) => err = ErrNil
            /\ err = ErrNil =>
                /\ got.err = ErrNil
                /\ got.ret # <<>>
                /\ e.Id # 0 => got.ret[1].Id = e.Id
                /\ got.ret[1].Summary = e.Summary
                /\ got.ret[1].FullInfo = e.FullInfo
                /\ e.LastTime = ZeroTime =>
                       (began <= got.ret[1].LastTime /\ got.ret[1].LastTime <= now)
                /\ e.LastTime # ZeroTime => got.ret[1].LastTime = e.LastTime

C6_Witness ==
    /\ op = "Create" /\ err = ErrNil
    /\ args[1].LastTime = ZeroTime
    /\ args[1].Id # 0
    /\ began < now
    /\ \E r \in table : r.Id = args[1].Id /\ r.LastTime = now

ReadMethods == {"GetModel", "GetCondition", "GetConditionOrder"}

\* C7: not found on a read is not an error.  A read whose condition matches
\* no row returns nil with a nil error; a record is returned only when a
\* matching row exists, and is one; execution failures are the only errors;
\* the table is unchanged.
C7_ReadNotFound ==
    op \in ReadMethods =>
        LET matching == Where(before, query.cond, argId)
        IN  /\ table = before
            /\ err # ErrExec => err = ErrNil
            /\ (matching = {} /\ err # ErrExec) => (ret = <<>> /\ err = ErrNil)
            /\ ret # <<>> => (ret[1] \in matching /\ err = ErrNil)

C7_Witness ==
    /\ op = "GetModel" /\ err = ErrNil /\ ret = <<>>
    /\ before # {}
    /\ WithId(before, argId) = {}

\* C8: Delete is idempotent.  Delete(id) returns no error whether or not a
\* row with id exists, removes exactly the rows with that id, and a second
\* Delete(id) returns nil and leaves the table as the first left it.
C8_DeleteIdempotent ==
    (op = "Delete" /\ err # ErrExec) =>
        /\ err = ErrNil
        /\ table = { r \in before : r.Id # argId }
        /\ ResultError(gormDelete(table, argId)) = ErrNil
        /\ gormDelete(table, argId).t = table

C8_Witness ==
    /\ op = "Delete" /\ err = ErrNil
    /\ before # {}
    /\ WithId(before, argId) = {}
    /\ table = before

----------------------------------------------------------------------------
(* The claim about pagination, under SpecPage. *)

Occurrences(seq, x) == Cardinality({ i \in DOMAIN seq : seq[i] = x })

\* C9: pagination covers the table exactly once.  When the pages
\* GetList(0,k), GetList(k,k), ... have been read up to the empty page and
\* the table was not written meanwhile, every row of the table is in
\* exactly one page, the pages hold nothing else, and no page is longer
\* than k.
C9_PaginationCoversOnce ==
    /\ (pgK > 0 /\ op = "GetList") => Len(ret) <= pgK
    /\ (pgDone /\ ~pgDirty) =>
        /\ \A r \in pgBase : Occurrences(pgSeen, r) = 1
        /\ \A i \in DOMAIN pgSeen : pgSeen[i] \in pgBase

C9_Witness ==
    /\ pgDone /\ ~pgDirty
    /\ pgK = 1
    /\ Cardinality(pgBase) = 2
    /\ Len(pgSeen) = 2

----------------------------------------------------------------------------
(* The claim about schema provisioning, under SpecSchema. *)

\* C10: schema provisioning is idempotent.  The first NewDao[T] leaves T's
\* table in place; every later NewDao[T] on the connection issues the
\* existence probe by the naming strategy's table name and nothing else;
\* no NewDao alters a table; under either setting of NoLowerCase.
C10_ProvisioningIdempotent ==
    daoType # <<>> =>
        LET tn == TableName(cfg.noLowerCase, daoType)
        IN  /\ \A i \in DOMAIN ddl : ddl[i].stmt # "AlterTable"
            /\ daoCount[daoType] >= 1 => HasTable(catalog, tn)
            /\ daoCount[daoType] >= 2 => ddl = <<Statement("HasTable", tn)>>

----------------------------------------------------------------------------
(* The claim about NewDb, under SpecSetup. *)

\* The connect string a call of NewDb went by: the section's, or the default
\* one when neither key was configured.
ConnectSeen == IF dbSaw.value = Absent THEN DefaultSetting.connect ELSE dbSaw.value.connect
LeadingToken == IF ConnectSeen = <<>> \/ ConnectSeen[1] \in {"|", "&"} THEN "" ELSE ConnectSeen[1]
HasSeparator == \E i \in 1..Len(ConnectSeen) : ConnectSeen[i] = "|"

\* C11: every NewDb call ends with a live connection or a panic, never with
\* a nil handle returned to the caller; it panics when the base config is
\* unset, when the section's value cannot be decoded into settings, when the
\* connect string's leading token is not one of the four kinds, when the
\* connect string has no "|", and when creating the directory or opening the
\* connection fails.
C11_SetupFatal ==
    db.out # "none" =>
        /\ db.out \in {"db", "panic"}
        /\ ~dbSaw.baseCfg => db.out = "panic"
        /\ dbSaw.value.type \in {"mistyped", "unencodable"} => db.out = "panic"
        /\ dbSaw.value.type \in {"nil", "setting"} =>
              /\ LeadingToken \notin Kinds => db.out = "panic"
              /\ ~HasSeparator => db.out = "panic"
              /\ dbSaw.openErr => db.out = "panic"
              /\ (dbSaw.mkdirErr /\ LeadingToken = "sqlite") => db.out = "panic"

----------------------------------------------------------------------------
(* The claim about UpdateList and rows that do not exist, under SpecList. *)

\* The zero value of a field of DbFull.
ZeroOf(field) == IF field = "LastTime" THEN ZeroTime ELSE ""

\* What a column of the row r holds after the list's updates: the value of
\* the last element with r's Id that carries a non-zero value for it, and
\* r's own value when there is none.
FieldAfter(r, field) ==
    LET carriers == { i \in 1..Len(args) :
                        args[i].Id = r.Id /\ args[i][field] # ZeroOf(field) }
    IN  IF carriers = {} THEN r[field] ELSE args[Max(carriers)][field]

\* The table the updates of the elements that match a row leave: the rows
\* of before, each with its columns updated, and no other row.
TableAfterUpdates ==
    { [ Id |-> r.Id,
        LastTime |-> FieldAfter(r, "LastTime"),
        Summary |-> FieldAfter(r, "Summary"),
        FullInfo |-> FieldAfter(r, "FullInfo") ] : r \in before }

MissingElements == { i \in 1..Len(args) : WithId(before, args[i].Id) = {} }

====
